---- MODULE Spec2Model ----
(***************************************************************************)
(* A model of pybindingcurve.BindingCurve (src/pybindingcurve/             *)
(* pybindingcurve.py): the plot accumulator (add_curve,                    *)
(* add_points_to_plot, show_plot) and the parameter fitter (fit and its    *)
(* residual callback).                                                     *)
(*                                                                         *)
(* Python values are modelled as follows.                                  *)
(*   - a float is an integer; np.nan is the distinguished value NaN;       *)
(*   - an array, a list or a scalar parameter value is a record            *)
(*     [type, v] with v a sequence (a scalar is a sequence of length 1);   *)
(*   - a dict with insertion order is a record [keys, val];                *)
(*   - None is the string "None" where the other values are strings, and   *)
(*     a flag where they are not;                                          *)
(*   - the Y limits of the axes are kept in tenths, so that the factor     *)
(*     1.1 of show_plot is the integer factor 11.                          *)
(***************************************************************************)
EXTENDS Integers, Sequences, FiniteSets, TLC

VARIABLES
    obj,       \* the instance attributes of each BindingCurve object
    curves,    \* the class attribute BindingCurve.curves (one list object)
    hist,      \* history: per object, the plot calls made on it, in order
    last,      \* history: the call that completed last, with its outcome
               \* (NoCall before the first call and while a fit is running)
    ncalls,    \* history: the number of completed calls
    fit_pc,    \* position of the fit call in progress
    fit_frame, \* locals of the fit call in progress
    heap,      \* the dict objects of a fit call: the caller's and the copy
    params     \* the minimizer's lmfit.Parameters

vars == <<obj, curves, hist, last, ncalls, fit_pc, fit_frame, heap, params>>

\* ---------------------------------------------------------------- bounds

MaxCalls == 3
MaxEvals == 3

\* ------------------------------------------------------------- constants

\* np.nan
NaN == -999

\* -np.inf and np.inf, the default bounds of a fitted variable
NegInf == -1000
PosInf == 1000

\* len(list("krgbycmrgbycmrgby")); the np.linspace(0.1, 0.9, 0.05) tail has
\* int(0.05) = 0 samples
NumColours == 17

Insts == {"A", "B"}

\* ----------------------------------------------------------- the systems

NoSystem == "None"

\* binding_system.lower() on the names callers pass
Lower(s) ==
    CASE s = "Simple" -> "simple"
      [] s = "1:1 Kinetic" -> "1:1 kinetic"
      [] OTHER -> s

\* BindingCurve.__init__ for a str argument: the system class, or None
SystemOfName(binding_system) ==
    LET n == Lower(binding_system)
        s1 == IF n = "simple" \/ n = "1:1"
              THEN "System_one_to_one_analytical_pl" ELSE NoSystem
        s2 == IF n = "simplekinetic" \/ n = "simple kinetic"
                 \/ n = "1:1 kinetic" \/ n = "1:1kinetic"
              THEN "System_one_to_one" ELSE s1
        s3 == IF n = "homodimer" \/ n = "homodimer formation"
              THEN "System_homodimer_formation_analytical_pp" ELSE s2
        s4 == IF n = "homodimerkinetic" \/ n = "homodimer kinetic"
                 \/ n = "homodimerformationkinetic"
                 \/ n = "homodimer formation kinetic"
              THEN "System_homodimer_formation" ELSE s3
        s5 == IF n = "competition" \/ n = "1:1:1"
              THEN "System_competition" ELSE s4
        s6 == IF n = "homodimerbreaking" \/ n = "homodimer breaking"
              THEN "System_homodimer_breaking" ELSE s5
    IN s6

\* the analytical flag of a BindingSystem
Analytical(system) ==
    system \in {"System_one_to_one_analytical_pl",
                "System_homodimer_formation_analytical_pp"}

\* the arguments of a BindingSystem
Arguments(system) ==
    IF system \in {"System_one_to_one_analytical_pl", "System_one_to_one"}
    THEN {"p", "l", "kd"}
    ELSE IF system \in {"System_homodimer_formation_analytical_pp",
                        "System_homodimer_formation"}
    THEN {"p", "kd"}
    ELSE {"p", "l", "i", "kd"}

\* the names the constructor is called with
BindingSystemNames == {"Simple", "1:1 Kinetic", "bogus"}

\* the attributes of a new object: the class attributes, and system
NewObject(binding_system) ==
    [system |-> SystemOfName(binding_system),
     fig |-> FALSE,
     ylim |-> <<0, 0>>,
     xlim |-> <<>>,
     min_x |-> 0, max_x |-> 0, min_y |-> 0, max_y |-> 0,
     num_added_traces |-> 0,
     last_known_changing_parameter |-> "X",
     last_known_readout |-> "Y"]

\* ------------------------------------------------------- numpy and Python

IsNaN(a) == a = NaN

\* a < b and a > b on floats: False when either is NaN
Lt(a, b) == ~IsNaN(a) /\ ~IsNaN(b) /\ a < b

\* np.nanmin of a non-empty sequence: NaN entries are ignored; NaN if all are
RECURSIVE nanmin(_)
nanmin(s) ==
    IF Len(s) = 1 THEN s[1]
    ELSE LET r == nanmin(Tail(s))
         IN IF IsNaN(s[1]) THEN r
            ELSE IF IsNaN(r) THEN s[1]
            ELSE IF s[1] < r THEN s[1] ELSE r

\* np.nanmax of a non-empty sequence
RECURSIVE nanmax(_)
nanmax(s) ==
    IF Len(s) = 1 THEN s[1]
    ELSE LET r == nanmax(Tail(s))
         IN IF IsNaN(s[1]) THEN r
            ELSE IF IsNaN(r) THEN s[1]
            ELSE IF s[1] > r THEN s[1] ELSE r

\* Python's min(a, b): b only if b < a
PyMin2(a, b) == IF Lt(b, a) THEN b ELSE a

\* Python's max(a, b): b only if b > a
PyMax2(a, b) == IF Lt(a, b) THEN b ELSE a

\* Python's min over a non-empty iterable, left to right
RECURSIVE PyMinSeq(_)
PyMinSeq(s) ==
    IF Len(s) = 1 THEN s[1]
    ELSE PyMin2(PyMinSeq(SubSeq(s, 1, Len(s) - 1)), s[Len(s)])

\* Python's max over a non-empty iterable, left to right
RECURSIVE PyMaxSeq(_)
PyMaxSeq(s) ==
    IF Len(s) = 1 THEN s[1]
    ELSE PyMax2(PyMaxSeq(SubSeq(s, 1, Len(s) - 1)), s[Len(s)])

\* a float times 1.1 (k = 11) or 1.0 (k = 10), in tenths
Tenths(a, k) == IF IsNaN(a) THEN NaN ELSE k * a

\* -------------------------------------------------------------- outcomes

Returned == [kind |-> "returned", what |-> ""]
Reported(msg) == [kind |-> "reported", what |-> msg]
Raised(exc) == [kind |-> "raised", what |-> exc]

NoQuery == [nargs |-> 0, readout |-> "None"]

\* _Curve(xcoords, ycoords)
Curve(xcoords, ycoords) == [xcoords |-> xcoords, ycoords |-> ycoords, name |-> ""]

\* ------------------------------------------------------ the plot methods

\* a parameter value: a scalar, a numpy array or a list
Float(a) == [type |-> "float", v |-> <<a>>]
NdArray(s) == [type |-> "ndarray", v |-> s]
List(s) == [type |-> "list", v |-> s]

\* BindingCurve._find_changing_parameters: the loop over params.keys()
RECURSIVE ChangingList(_, _)
ChangingList(prms, ks) ==
    IF ks = <<>> THEN <<>>
    ELSE (IF prms.val[Head(ks)].type = "ndarray" \/ prms.val[Head(ks)].type = "list"
          THEN <<Head(ks)>> ELSE <<>>) \o ChangingList(prms, Tail(ks))

\* BindingCurve._find_changing_parameters: None when nothing changes
find_changing_parameters(prms) ==
    LET changing_list == ChangingList(prms, prms.keys)
    IN IF Len(changing_list) = 0
       THEN [isNone |-> TRUE, list |-> <<>>]
       ELSE [isNone |-> FALSE, list |-> changing_list]

\* BindingCurve._initialize_plot: a figure once, with set_ylim(0, 1)
initialize_plot(self) ==
    IF ~self.fig
    THEN [self EXCEPT !.fig = TRUE, !.ylim = <<0, 10>>]
    ELSE self

\* BindingCurve.add_curve.  q is what system.query does if it is called:
\* it raises, or it returns q.y.
add_curve(self, cs, parameters, readout, q) ==
    IF self.system = NoSystem
    THEN [self |-> self, curves |-> cs, appended |-> FALSE, query |-> NoQuery,
          outcome |-> Reported("No system defined, could not proceed")]
    ELSE
    LET s1 == initialize_plot(self)
        changing_parameters == find_changing_parameters(parameters)
    IN
    IF changing_parameters.isNone
    THEN \* len(None)
         [self |-> s1, curves |-> cs, appended |-> FALSE, query |-> NoQuery,
          outcome |-> Raised("TypeError")]
    ELSE IF ~(Len(changing_parameters.list) = 1)
    THEN [self |-> s1, curves |-> cs, appended |-> FALSE, query |-> NoQuery,
          outcome |-> Reported("Must have 1 changing parameter, no curves added.")]
    ELSE
    LET cp == changing_parameters.list[1]
        x == parameters.val[cp].v
        query == IF ~Analytical(self.system)
                 THEN [nargs |-> 2, readout |-> readout]
                 ELSE [nargs |-> 1, readout |-> "None"]
    IN
    IF q.raised
    THEN [self |-> s1, curves |-> cs, appended |-> FALSE, query |-> query,
          outcome |-> Raised("QueryError")]
    ELSE
    LET y_values == q.y
        cs2 == Append(cs, Curve(x, y_values))
        s2 == [s1 EXCEPT !.last_known_changing_parameter = cp,
                         !.last_known_readout = readout,
                         !.num_added_traces = @ + 1]
    IN
    IF s2.num_added_traces >= NumColours
    THEN \* plot_solution_colours[_num_added_traces]
         [self |-> s2, curves |-> cs2, appended |-> TRUE, query |-> query,
          outcome |-> Raised("IndexError")]
    ELSE IF Len(x) = 0
    THEN \* parameters[changing_parameters[0]][-1]
         [self |-> s2, curves |-> cs2, appended |-> TRUE, query |-> query,
          outcome |-> Raised("IndexError")]
    ELSE
    LET s3 == [s2 EXCEPT !.max_x = nanmax(<<@, x[Len(x)]>>),
                         !.min_x = nanmin(<<@, x[1]>>)]
    IN
    IF Len(y_values) = 0
    THEN \* np.nanmin of an empty array
         [self |-> s3, curves |-> cs2, appended |-> TRUE, query |-> query,
          outcome |-> Raised("ValueError")]
    ELSE [self |-> [s3 EXCEPT !.min_y = nanmin(y_values),
                              !.max_y = nanmax(<<@, nanmax(y_values)>>)],
          curves |-> cs2, appended |-> TRUE, query |-> query,
          outcome |-> Returned]

\* BindingCurve.add_points_to_plot
add_points_to_plot(self, xcoords, ycoords) ==
    LET s1 == initialize_plot(self)
    IN
    IF xcoords.type = "ndarray" /\ ycoords.type = "ndarray"
    THEN IF Len(ycoords.v) = 0
         THEN \* min() of an empty sequence
              [self |-> s1, outcome |-> Raised("ValueError")]
         ELSE [self |-> [s1 EXCEPT !.min_y = PyMin2(@, PyMinSeq(ycoords.v)),
                                   !.max_y = PyMax2(@, PyMaxSeq(ycoords.v))],
               outcome |-> Returned]
    ELSE [self |-> s1, outcome |-> Returned]

\* an optional float argument: <<>> is None
Given(opt) == Len(opt) > 0

\* BindingCurve.show_plot, to the axis labels (the rest is rendering)
show_plot(self, o) ==
    LET s1 == [self EXCEPT
                 !.min_x = IF Given(o.min_x) THEN o.min_x[1] ELSE @,
                 !.max_x = IF Given(o.max_x) THEN o.max_x[1] ELSE @,
                 !.min_y = IF Given(o.min_y) THEN o.min_y[1] ELSE @,
                 !.max_y = IF Given(o.max_y) THEN o.max_y[1] ELSE @]
    IN
    IF ~s1.fig
    THEN \* self.axes is None
         [self |-> s1, outcome |-> Raised("AttributeError")]
    ELSE
    LET s2 == [s1 EXCEPT
                 !.ylim = IF ~Given(o.max_y)
                          THEN <<Tenths(s1.min_y, 10), Tenths(s1.max_y, 11)>>
                          ELSE <<Tenths(s1.min_y, 10), Tenths(s1.max_y, 10)>>,
                 !.xlim = <<s1.min_x, s1.max_x>>]
    IN
    IF o.ylabel = "None" /\ s2.last_known_readout = "None"
    THEN \* None.upper()
         [self |-> s2, outcome |-> Raised("AttributeError")]
    ELSE [self |-> s2, outcome |-> Returned]

\* --------------------------------------------------------------- inputs

ParameterMappings ==
    {[keys |-> <<"p", "l">>, val |-> [p |-> Float(1), l |-> Float(2)]],
     [keys |-> <<"p", "l">>, val |-> [p |-> Float(1), l |-> NdArray(<<1, 2>>)]],
     [keys |-> <<"p", "l">>, val |-> [p |-> Float(1), l |-> List(<<>>)]],
     [keys |-> <<"p", "l">>, val |-> [p |-> NdArray(<<1, 2>>), l |-> List(<<0, 3>>)]]}

Readouts == {"None", "pl"}

YArrays == {<<>>, <<1, 3>>, <<2, 4>>, <<NaN, 2>>}

\* what system.query may do on a sweep of n values
QueryOutcomes(n) ==
    {[raised |-> TRUE, y |-> <<>>]}
    \cup {[raised |-> FALSE, y |-> y] : y \in {ys \in YArrays : Len(ys) = n}}

\* the length of the sweep the system is queried with, if it is
SweepLen(parameters) ==
    LET cl == find_changing_parameters(parameters).list
    IN IF Len(cl) = 0 THEN 0 ELSE Len(parameters.val[cl[1]].v)

PointInputs ==
    {[x |-> NdArray(<<1, 2>>), y |-> NdArray(<<1, 3>>)],
     [x |-> NdArray(<<1, 2>>), y |-> NdArray(<<-2, -1>>)],
     [x |-> List(<<1, 2>>), y |-> List(<<1, 3>>)]}

ShowOptions ==
    {[min_x |-> <<>>, max_x |-> <<>>, min_y |-> <<>>, max_y |-> <<>>, ylabel |-> "None"],
     [min_x |-> <<>>, max_x |-> <<>>, min_y |-> <<>>, max_y |-> <<5>>, ylabel |-> "None"],
     [min_x |-> <<>>, max_x |-> <<>>, min_y |-> <<-1>>, max_y |-> <<>>, ylabel |-> "Bound"],
     [min_x |-> <<1>>, max_x |-> <<2>>, min_y |-> <<>>, max_y |-> <<>>, ylabel |-> "Bound"]}

\* ------------------------------------------------------------ the fitter

\* a value of a parameter dict during a fit: a float, or a reference to the
\* lmfit Parameter object of that name
FitFloat(a) == [type |-> "float", v |-> <<a>>, ref |-> ""]
ParamRef(name) == [type |-> "Parameter", v |-> <<>>, ref |-> name]

EmptyDict == <<>>

\* system_parameters_copy = system_parameters: the same dict object
dict_alias(h, src) == [heap |-> h, ref |-> src]

\* dict(system_parameters): a new dict object with the same items
dict_copy(h, src) == [heap |-> [h EXCEPT !.copy = h[src]], ref |-> "copy"]

\* sorted(list(...)) of a set of argument names
ArgOrder == <<"i", "kd", "l", "p">>
Sorted(S) == LET In(k) == k \in S IN SelectSeq(ArgOrder, In)

\* the checks of fit with the completeness check first
fit_precheck_arguments_first(self, keys_copy, keys_to_fit) ==
    IF self.system = NoSystem
    THEN Raised("AttributeError")
    ELSE LET missing == Sorted(Arguments(self.system) \ (keys_copy \cup keys_to_fit))
         IN IF Len(missing) > 0
            THEN [kind |-> "reported", what |-> "Missing variables are: ",
                  missing |-> missing]
            ELSE IF keys_to_fit = {}
            THEN Reported("Nothing to fit, insert parameters to fit into to_fit dictionary")
            ELSE Returned

\* BindingCurve.fit, the checks before the minimizer is set up
fit_precheck(self, keys_copy, keys_to_fit) ==
    IF keys_to_fit = {}
    THEN Reported("Nothing to fit, insert parameters to fit into to_fit dictionary")
    ELSE IF self.system = NoSystem
    THEN \* None.arguments
         Raised("AttributeError")
    ELSE LET missing == Sorted(Arguments(self.system) \ (keys_copy \cup keys_to_fit))
         IN IF Len(missing) > 0
            THEN [kind |-> "reported", what |-> "Missing variables are: ",
                  missing |-> missing]
            ELSE Returned

\* BindingCurve.fit, the lmfit.Parameters built from to_fit and bounds
fit_parameters(to_fit, bounds) ==
    [varname \in DOMAIN to_fit |->
        [value |-> to_fit[varname],
         min |-> IF varname \in DOMAIN bounds THEN bounds[varname][1] ELSE NegInf,
         max |-> IF varname \in DOMAIN bounds THEN bounds[varname][2] ELSE PosInf,
         stderr |-> <<>>]]

\* BindingCurve._residual: system_parameters[value] = params[value]
residual(h, ref, ps) ==
    [h EXCEPT ![ref] = [k \in DOMAIN h[ref] \cup DOMAIN ps |->
                           IF k \in DOMAIN ps THEN ParamRef(k) ELSE h[ref][k]]]

\* BindingCurve.fit, after minimize(): Parameter objects become their values
fit_merge(d, ps) ==
    [k \in DOMAIN d |->
        IF d[k].type = "Parameter" THEN FitFloat(ps[d[k].ref].value) ELSE d[k]]

\* the values the minimizer may try for the variables ps
Vals == {1, 2, 3}
Trials(ps) ==
    {t \in [DOMAIN ps -> Vals] :
        \A k \in DOMAIN ps : ps[k].min <= t[k] /\ t[k] <= ps[k].max}

BaseParams ==
    {[p |-> FitFloat(1), l |-> FitFloat(2)],
     [p |-> FitFloat(1), l |-> FitFloat(2), kd |-> FitFloat(2)],
     [l |-> FitFloat(2)]}

ToFits == {EmptyDict, [kd |-> 1], [kd |-> 2, p |-> 1]}

\* bounds=None is the empty dict
BoundsInputs == {EmptyDict, [kd |-> <<2, 3>>]}

\* -------------------------------------------------------------- actions

NoFrame == [inst |-> "A", ref |-> "copy", system_parameters |-> EmptyDict,
            to_fit |-> EmptyDict, nfev |-> 0]

NoCall == [inst |-> "A", op |-> "none", outcome |-> Returned]

Init ==
    /\ obj \in {[i \in Insts |-> NewObject(n[i])] : n \in [Insts -> BindingSystemNames]}
    /\ curves = <<>>
    /\ hist = [i \in Insts |-> <<>>]
    /\ last = NoCall
    /\ ncalls = 0
    /\ fit_pc = "idle"
    /\ fit_frame = NoFrame
    /\ heap = [caller |-> EmptyDict, copy |-> EmptyDict]
    /\ params = EmptyDict

\* a plot call c on object i has completed
Completed(i, c) ==
    /\ hist' = [hist EXCEPT ![i] = Append(@, c)]
    /\ last' = c
    /\ ncalls' = ncalls + 1

AddCurve(i) ==
    /\ fit_pc = "idle"
    /\ ncalls < MaxCalls
    /\ \E parameters \in ParameterMappings, readout \in Readouts :
         \E q \in QueryOutcomes(SweepLen(parameters)) :
           LET r == add_curve(obj[i], curves, parameters, readout, q)
           IN /\ obj' = [obj EXCEPT ![i] = r.self]
              /\ curves' = r.curves
              /\ Completed(i, [inst |-> i, op |-> "add_curve",
                               parameters |-> parameters, readout |-> readout,
                               query |-> r.query, appended |-> r.appended,
                               y |-> IF r.appended THEN q.y ELSE <<>>,
                               outcome |-> r.outcome])
    /\ UNCHANGED <<fit_pc, fit_frame, heap, params>>

AddPoints(i) ==
    /\ fit_pc = "idle"
    /\ ncalls < MaxCalls
    /\ \E pts \in PointInputs :
         LET r == add_points_to_plot(obj[i], pts.x, pts.y)
         IN /\ obj' = [obj EXCEPT ![i] = r.self]
            /\ Completed(i, [inst |-> i, op |-> "add_points_to_plot",
                             x |-> pts.x, y |-> pts.y, outcome |-> r.outcome])
    /\ UNCHANGED <<curves, fit_pc, fit_frame, heap, params>>

ShowPlot(i) ==
    /\ fit_pc = "idle"
    /\ ncalls < MaxCalls
    /\ \E o \in ShowOptions :
         LET r == show_plot(obj[i], o)
         IN /\ obj' = [obj EXCEPT ![i] = r.self]
            /\ Completed(i, [inst |-> i, op |-> "show_plot",
                             options |-> o, outcome |-> r.outcome])
    /\ UNCHANGED <<curves, fit_pc, fit_frame, heap, params>>

Next ==
    \E i \in Insts :
        \/ AddCurve(i)
        \/ AddPoints(i)
        \/ ShowPlot(i)

Spec == Init /\ [][Next]_vars

\* the record of a fit call that has ended
FitEnded(f, outcome, h, ps) ==
    [inst |-> f.inst, op |-> "fit", system_parameters |-> f.system_parameters,
     to_fit |-> f.to_fit, nfev |-> f.nfev, outcome |-> outcome,
     fitted_ref |-> IF outcome.kind = "returned" THEN f.ref ELSE "None",
     fitted |-> IF outcome.kind = "returned" THEN h[f.ref] ELSE EmptyDict,
     stderr |-> IF outcome.kind = "returned"
                THEN [k \in DOMAIN ps |-> ps[k].stderr] ELSE EmptyDict]

\* fit is called: the copy, the checks, and the minimizer's parameters
FitCall(i) ==
    /\ fit_pc = "idle"
    /\ ncalls < MaxCalls
    /\ \E system_parameters \in BaseParams, to_fit \in ToFits, bounds \in BoundsInputs :
         LET c == dict_copy([caller |-> system_parameters, copy |-> EmptyDict],
                            "caller")
             pre == fit_precheck(obj[i], DOMAIN c.heap[c.ref], DOMAIN to_fit)
             f == [inst |-> i, ref |-> c.ref, system_parameters |-> system_parameters,
                   to_fit |-> to_fit, nfev |-> 0]
         IN /\ heap' = c.heap
            /\ fit_frame' = f
            /\ IF pre = Returned
               THEN /\ params' = fit_parameters(to_fit, bounds)
                    /\ fit_pc' = "minimizing"
                    /\ last' = NoCall
                    /\ UNCHANGED ncalls
               ELSE /\ params' = EmptyDict
                    /\ fit_pc' = "idle"
                    /\ last' = FitEnded(f, pre, c.heap, EmptyDict)
                    /\ ncalls' = ncalls + 1
    /\ UNCHANGED <<obj, curves, hist>>

\* the minimizer evaluates the residual at trial values; the system query in
\* it returns or raises
Residual ==
    /\ fit_pc = "minimizing"
    /\ fit_frame.nfev < MaxEvals
    /\ \E t \in Trials(params), raised \in BOOLEAN :
         LET ps == [k \in DOMAIN params |-> [params[k] EXCEPT !.value = t[k]]]
             h == residual(heap, fit_frame.ref, ps)
             f == [fit_frame EXCEPT !.nfev = @ + 1]
         IN /\ params' = ps
            /\ heap' = h
            /\ fit_frame' = f
            /\ IF raised
               THEN /\ fit_pc' = "idle"
                    /\ last' = FitEnded(f, Raised("QueryError"), h, ps)
                    /\ ncalls' = ncalls + 1
               ELSE UNCHANGED <<fit_pc, last, ncalls>>
    /\ UNCHANGED <<obj, curves, hist>>

\* minimize() returns: the best values are in the Parameters, with standard
\* errors or without; fit merges them into the copy and returns
MinimizerDone ==
    /\ fit_pc = "minimizing"
    /\ fit_frame.nfev >= 1
    /\ \E best \in Trials(params), err \in {<<>>, <<1>>} :
         LET ps == [k \in DOMAIN params |->
                       [params[k] EXCEPT !.value = best[k], !.stderr = err]]
             h == [heap EXCEPT ![fit_frame.ref] = fit_merge(@, ps)]
         IN /\ params' = ps
            /\ heap' = h
            /\ last' = FitEnded(fit_frame, Returned, h, ps)
    /\ fit_pc' = "idle"
    /\ ncalls' = ncalls + 1
    /\ UNCHANGED <<obj, curves, hist, fit_frame>>

NextFit ==
    \/ \E i \in Insts : FitCall(i)
    \/ Residual
    \/ MinimizerDone

SpecFit == Init /\ [][NextFit]_vars

\* ------------------------------------------------- what the claims speak of

\* the plot state of an object: bounds, curve list (self.curves is the class
\* attribute), trace counter and last-known names
PlotState(o, cs) ==
    <<o.min_x, o.max_x, o.min_y, o.max_y, cs, o.num_added_traces,
      o.last_known_changing_parameter, o.last_known_readout>>

\* a <= b on floats that are both numbers
Le(a, b) == ~IsNaN(a) /\ ~IsNaN(b) /\ a <= b

\* the number of sequence-valued entries of a parameter mapping
NumChanging(parameters) == Len(ChangingList(parameters, parameters.keys))

\* every call made on object i so far was an add_curve that returned
OnlySuccessfulCurves(i) ==
    \A n \in 1..Len(hist[i]) :
        hist[i][n].op = "add_curve" /\ hist[i][n].outcome = Returned

\* the add_curve and add_points_to_plot calls object i has received
IsAdd(c) == c.op \in {"add_curve", "add_points_to_plot"}
Anon(c) == [c EXCEPT !.inst = "A"]
Adds(i) == SelectSeq(hist[i], IsAdd)
SameAdds(i, j) ==
    /\ Len(Adds(i)) = Len(Adds(j))
    /\ \A n \in 1..Len(Adds(i)) : Anon(Adds(i)[n]) = Anon(Adds(j)[n])

\* the running Y maximum over the curves and points of a sequence of adds,
\* from the class default 0.0
RECURSIVE RunningMaxY(_)
RunningMaxY(adds) ==
    IF adds = <<>> THEN 0
    ELSE LET m == RunningMaxY(SubSeq(adds, 1, Len(adds) - 1))
             c == adds[Len(adds)]
         IN IF c.outcome # Returned THEN m
            ELSE IF c.op = "add_curve" THEN nanmax(<<m, nanmax(c.y)>>)
            ELSE IF c.x.type = "ndarray" /\ c.y.type = "ndarray"
                 THEN PyMax2(m, PyMaxSeq(c.y.v))
            ELSE m

\* the last call on object i was a show_plot that applied its limits
Shown(i) ==
    /\ hist[i] # <<>>
    /\ hist[i][Len(hist[i])].op = "show_plot"
    /\ obj[i].fig
ShownOptions(i) == hist[i][Len(hist[i])].options

\* the curves appended by the add_curve calls of a history
RECURSIVE CurvesAdded(_)
CurvesAdded(h) ==
    IF h = <<>> THEN <<>>
    ELSE LET c == h[Len(h)]
             rest == CurvesAdded(SubSeq(h, 1, Len(h) - 1))
         IN IF c.op = "add_curve" /\ c.appended
            THEN Append(rest, Curve(c.parameters.val[ChangingList(c.parameters,
                                        c.parameters.keys)[1]].v, c.y))
            ELSE rest

\* the smallest and the largest element of a non-empty sequence of numbers
SeqMin(s) == CHOOSE m \in {s[n] : n \in 1..Len(s)} : \A n \in 1..Len(s) : m <= s[n]
SeqMax(s) == CHOOSE m \in {s[n] : n \in 1..Len(s)} : \A n \in 1..Len(s) : m >= s[n]

\* ---------------------------------------------------------------- claims

\* C1: add_curve on a configured system with zero, or with two or more,
\* sequence-valued parameters ends with the reported failure "must have 1
\* changing parameter" and never raises.
C1_InvalidSweepIsReported ==
    (/\ last.op = "add_curve"
     /\ obj[last.inst].system # NoSystem
     /\ NumChanging(last.parameters) # 1)
    => last.outcome = Reported("Must have 1 changing parameter, no curves added.")

\* C2: an add_curve call that fails, for whatever reason, leaves the plot
\* state of its object (X and Y bounds, curve list, trace counter, last-known
\* names) as it was before the call.
C2_FailedAddCurveKeepsPlotState ==
    [][(/\ ncalls' = ncalls + 1
        /\ last'.op = "add_curve"
        /\ last'.outcome # Returned)
       => LET i == last'.inst
          IN PlotState(obj'[i], curves') = PlotState(obj[i], curves)]_vars

\* C3: after a sequence of successful add_curve calls on one object, _min_y_axis
\* is at most every non-NaN y-value of every curve added through it, and
\* _max_y_axis is at least every such value.
C3_YBoundsAreRunning ==
    \A i \in Insts :
        OnlySuccessfulCurves(i) =>
            \A n \in 1..Len(hist[i]) : \A m \in 1..Len(hist[i][n].y) :
                LET v == hist[i][n].y[m]
                IN ~IsNaN(v) => Le(obj[i].min_y, v) /\ Le(v, obj[i].max_y)

C5_NullSystemIsReported ==
    (/\ last.op \in {"add_curve", "fit"}
     /\ obj[last.inst].system = NoSystem
     /\ (last.op = "fit" => DOMAIN last.to_fit # {}))
    => /\ last.outcome.kind = "reported"
       /\ last.op = "add_curve" =>
              last.outcome = Reported("No system defined, could not proceed")

\* C6: add_curve with one swept parameter on a non-analytical system and
\* readout None ends with a reported failure, without querying the system and
\* with the plot state unchanged; on an analytical system the readout is not
\* passed to the query.
C6_MissingReadoutIsReported ==
    [][(/\ ncalls' = ncalls + 1
        /\ last'.op = "add_curve"
        /\ obj[last'.inst].system # NoSystem
        /\ NumChanging(last'.parameters) = 1)
       => LET i == last'.inst
          IN IF Analytical(obj[i].system)
             THEN last'.query.nargs < 2
             ELSE last'.readout = "None" =>
                     /\ last'.outcome.kind = "reported"
                     /\ last'.query = NoQuery
                     /\ PlotState(obj'[i], curves') = PlotState(obj[i], curves)]_vars

\* C7: after add_points_to_plot(x, y) as the first call on an object, the Y
\* bounds are min(y) and max(y).
C7_PointsInitializeYBounds ==
    (/\ last.op = "add_points_to_plot"
     /\ hist[last.inst] = <<last>>)
    => /\ obj[last.inst].min_y = SeqMin(last.y.v)
       /\ obj[last.inst].max_y = SeqMax(last.y.v)

\* C8: fit with an empty to_fit ends with the reported failure "nothing to
\* fit" and the minimizer never runs, whatever the system and the other
\* arguments.
C8_EmptyToFitIsNothingToFit ==
    /\ (fit_pc = "idle" /\ last.op = "fit" /\ DOMAIN last.to_fit = {}) =>
           /\ last.outcome =
                  Reported("Nothing to fit, insert parameters to fit into to_fit dictionary")
           /\ last.nfev = 0
           /\ params = EmptyDict
    /\ fit_pc = "minimizing" => DOMAIN fit_frame.to_fit # {}

\* C8, witness: fit with an empty to_fit has ended on an object whose system
\* is None, with system_parameters that lack arguments of every system.
C8_Witness ==
    /\ fit_pc = "idle" /\ last.op = "fit" /\ DOMAIN last.to_fit = {}
    /\ obj[last.inst].system = NoSystem
    /\ DOMAIN last.system_parameters = {"l"}

\* C9: two objects that received the same add_curve and add_points_to_plot
\* calls get the same axis limits from show_plot calls with the same options,
\* whatever show_plot calls came before; and the Y upper limit is 1.1 times
\* the running Y maximum when max_y is not given, and max_y when it is.
C9_ShowPlotReproducible ==
    /\ \A i, j \in Insts :
           (Shown(i) /\ Shown(j) /\ ShownOptions(i) = ShownOptions(j) /\ SameAdds(i, j))
           => obj[i].ylim = obj[j].ylim /\ obj[i].xlim = obj[j].xlim
    /\ \A i \in Insts :
           Shown(i) =>
               obj[i].ylim[2] = IF Given(ShownOptions(i).max_y)
                                THEN Tenths(ShownOptions(i).max_y[1], 10)
                                ELSE Tenths(RunningMaxY(Adds(i)), 11)

\* C10: the curve list of each object holds the curves added through that
\* object, and as many as its trace counter says.
C10_CurvesAreConfined ==
    \A i \in Insts :
        /\ curves = CurvesAdded(hist[i])
        /\ Len(curves) = obj[i].num_added_traces

====
